---- MODULE Spec2Model ----
(***************************************************************************)
(* TargetHazardWorld (safe_learning_environments/envs/                     *)
(* target_hazard_world.py): three point masses (agent, target, hazard) in  *)
(* a bounded plane, the gymnasium reset/step/render/close protocol and the *)
(* pygame window the human render mode owns.                               *)
(*                                                                         *)
(* Numbers.  Every location, velocity, acceleration and bound is an exact  *)
(* rational held in fixed point: the integer n stands for n / Scale, with  *)
(* Scale = render_fps * render_fps.  dt = 1/render_fps is the integer      *)
(* Scale \div render_fps.  Accelerations are whole numbers (multiples of   *)
(* Scale), so velocities are multiples of dt and x * dt is exact at every  *)
(* place the program computes it.  A Euclidean norm is kept by its square. *)
(*                                                                         *)
(* Optional values.  Python's None is the empty tuple, a present value v   *)
(* of an optional scalar is <<v>>, a 2-vector is <<x, y>>.                 *)
(***************************************************************************)
EXTENDS Integers, Sequences, FiniteSets, TLC

\* ------------------------------------------------------------------------
\* Bounds of the model
\* ------------------------------------------------------------------------

\* step calls explored after one reset
MaxSteps == 2

\* reset is called with seed None or a seed in 0..MaxSeed
MaxSeed == 0

\* number of states of the modelled random bit generator
RngStates == 3

\* the trace an rgb_array environment accumulates by render() calls is
\* explored up to this many observations
MaxTrace == 1

\* how far (in whole units) an action or an explicit location exceeds its limit
Excess == 1

\* ------------------------------------------------------------------------
\* Program constants and constructor arguments
\* ------------------------------------------------------------------------

render_fps == 24

render_modes == {"human", "rgb_array"}

Scale == render_fps * render_fps

\* the constructor arguments of the environment under study; the limits are
\* chosen so that one step at full acceleration already saturates the velocity

\* location_precision = 1/24
location_precision == 24

\* max_absolute_location = 1, the default
max_absolute_location == Scale

\* max_absolute_velocity = 1, the default
max_absolute_velocity == Scale

\* max_absolute_acceleration = 48: one step adds up to 48 * dt = 2 to a velocity
max_absolute_acceleration == 2 * render_fps * Scale

\* ------------------------------------------------------------------------
\* Values
\* ------------------------------------------------------------------------

None == <<>>

Some(v) == <<v>>

zeros == <<0, 0>>

\* x * y of two fixed-point numbers
Mul(x, y) == (x * y) \div Scale

\* np.clip on one component
clip1(x, lo, hi) == IF x < lo THEN lo ELSE IF x > hi THEN hi ELSE x

\* np.clip on a 2-vector
clip(v, lo, hi) == <<clip1(v[1], lo, hi), clip1(v[2], lo, hi)>>

VecAdd(u, v) == <<u[1] + v[1], u[2] + v[2]>>

VecSub(u, v) == <<u[1] - v[1], u[2] - v[2]>>

VecScale(v, k) == <<Mul(v[1], k), Mul(v[2], k)>>

\* np.linalg.norm of a 2-vector, kept as the square of the norm
norm(v) == [squared |-> v[1] * v[1] + v[2] * v[2]]

\* NormLess with the comparison taken as <=
NormAtMost(n, r) == r > 0 /\ n.squared <= r * r

\* norm < r for a fixed-point number r
NormLess(n, r) == r > 0 /\ n.squared < r * r

\* dt = 1 / render_fps
StepDt == Scale \div render_fps

\* _step without the clip of the new location
_step_unclipped(location, velocity, accelaretion, dt) ==
    LET a == clip(accelaretion, -max_absolute_acceleration, max_absolute_acceleration)
        v == clip(VecAdd(velocity, VecScale(a, dt)),
                  -max_absolute_velocity, max_absolute_velocity)
    IN  [location |-> VecAdd(location, VecScale(v, dt)), velocity |-> v]

\* _step that moves the body by the velocity it had before the call
_step_old_velocity(location, velocity, accelaretion, dt) ==
    LET a == clip(accelaretion, -max_absolute_acceleration, max_absolute_acceleration)
        v == clip(VecAdd(velocity, VecScale(a, dt)),
                  -max_absolute_velocity, max_absolute_velocity)
        l == clip(VecAdd(location, VecScale(velocity, dt)),
                  -max_absolute_location, max_absolute_location)
    IN  [location |-> l, velocity |-> v]

\* TargetHazardWorld._step: the new (location, velocity) of one body
_step(location, velocity, accelaretion, dt) ==
    LET a == clip(accelaretion, -max_absolute_acceleration, max_absolute_acceleration)
        v == clip(VecAdd(velocity, VecScale(a, dt)),
                  -max_absolute_velocity, max_absolute_velocity)
        l == clip(VecAdd(location, VecScale(v, dt)),
                  -max_absolute_location, max_absolute_location)
    IN  [location |-> l, velocity |-> v]

\* ------------------------------------------------------------------------
\* The random source (gymnasium's self.np_random, a numpy Generator)
\* ------------------------------------------------------------------------

\* seeding.np_random(seed): the generator state a seed determines
Seeded(seed) == seed % RngStates

\* the generator state after one draw
RngNext(s) == (s + 1) % RngStates

\* the fraction in [0, 1] that the generator yields in state s
RngFraction(s) == (s * Scale) \div (RngStates - 1)

\* Generator.uniform(low, high, size=2): low + (high - low) * u per component,
\* two consecutive draws
uniform(s, low, high) ==
    LET s1 == RngNext(s)
    IN  [value |-> <<low + Mul(high - low, RngFraction(s)),
                     low + Mul(high - low, RngFraction(s1))>>,
         rng   |-> RngNext(s1)]

\* ------------------------------------------------------------------------
\* State
\* ------------------------------------------------------------------------

VARIABLES
    constructed,              \* "no", "yes", or "failed" (__init__ raised)
    render_mode,              \* self.render_mode
    show_observation_traces,  \* self.show_observation_traces
    window,                   \* self.window: None or <<surface>>
    clock,                    \* self.clock: None or <<clock>>
    display,                  \* pygame's display module: "uninit", "open", "quit"
    np_random,                \* self._np_random: None or <<generator state>>
    _agent_location, _agent_velocity,
    _target_location, _target_velocity,
    _hazard_location, _hazard_velocity,   \* None before the first reset
    observations,             \* self.observations: None (no attribute) or <<list>>
    last,                     \* what the last call did and returned
    episode                   \* the inputs since the last reset: seed, options, actions

vars == <<constructed, render_mode, show_observation_traces, window, clock, display,
          np_random, _agent_location, _agent_velocity, _target_location,
          _target_velocity, _hazard_location, _hazard_velocity, observations,
          last, episode>>

bodies == <<_agent_location, _agent_velocity, _target_location, _target_velocity,
            _hazard_location, _hazard_velocity>>

config == <<constructed, render_mode, show_observation_traces>>

resource == <<window, clock, display>>

\* everything but the record of the last call
program == <<config, resource, np_random, bodies, observations>>

\* TargetHazardWorld._get_obs on the given body state
_get_obs(al, av, tl, tv, hl, hv) == <<al, av, tl, tv, hl, hv>>

\* _get_info with the two distances under each other's key
_get_info_swapped(al, tl, hl) ==
    [target_distance |-> norm(VecSub(al, hl)),
     hazard_distance |-> norm(VecSub(al, tl))]

\* TargetHazardWorld._get_info on the given body state
_get_info(al, tl, hl) ==
    [target_distance |-> norm(VecSub(al, tl)),
     hazard_distance |-> norm(VecSub(al, hl))]

\* the record of a call: how it ended, what it returned, what it rendered
Result(op, outcome, obs, reward, terminated, truncated, info, render) ==
    [op |-> op, arg |-> None, outcome |-> outcome, obs |-> obs, reward |-> reward,
     terminated |-> terminated, truncated |-> truncated, info |-> info,
     passes |-> render.passes, frame |-> render.frame, blitted |-> render.blitted,
     created |-> render.created, array |-> None, released |-> FALSE]

\* a call that ran no render pass
NoRender == [passes |-> 0, frame |-> None, blitted |-> FALSE, created |-> FALSE]

NoResult(op, outcome) ==
    Result(op, outcome, None, None, None, None, None, NoRender)

\* options=None of reset
NoOptions ==
    [is_none |-> TRUE, agent_location |-> None, target_location |-> None,
     hazard_location |-> None]

NoEpisode == [seed |-> None, options |-> NoOptions, actions |-> <<>>]

Init ==
    /\ constructed = "no"
    /\ render_mode = "unset"
    /\ show_observation_traces = FALSE
    /\ window = None
    /\ clock = None
    /\ display = "uninit"
    /\ np_random = None
    /\ _agent_location = None /\ _agent_velocity = None
    /\ _target_location = None /\ _target_velocity = None
    /\ _hazard_location = None /\ _hazard_velocity = None
    /\ observations = None
    /\ last = NoResult("none", "return")
    /\ episode = NoEpisode

\* ------------------------------------------------------------------------
\* __init__
\* ------------------------------------------------------------------------

RenderModeArgs == {"None", "human", "rgb_array", "ansi"}

\* __init__ without the assert
AnyRenderMode(mode) == TRUE

\* the assert of __init__
ValidRenderMode(mode) == mode = "None" \/ mode \in render_modes

Construct(mode, traces) ==
    /\ constructed = "no"
    /\ IF ValidRenderMode(mode)
       THEN /\ constructed' = "yes"
            /\ render_mode' = mode
            /\ show_observation_traces' = traces
            /\ last' = [NoResult("__init__", "return") EXCEPT !.arg = Some(mode)]
       ELSE /\ constructed' = "failed"
            /\ UNCHANGED <<render_mode, show_observation_traces>>
            /\ last' = [NoResult("__init__", "AssertionError") EXCEPT !.arg = Some(mode)]
    /\ window' = None
    /\ clock' = None
    /\ UNCHANGED <<display, np_random, bodies, observations, episode>>

\* ------------------------------------------------------------------------
\* _render_frame
\* ------------------------------------------------------------------------

\* TraceAppend that puts the observation in front
TracePrepend(obsv, obs) == Some(<<obs>> \o obsv[1])

\* self.observations.append(self._get_obs())
TraceAppend(obsv, obs) == Some(Append(obsv[1], obs))

\* NeedsWindow without the test for a window that exists
NeedsWindowAlways(win) == render_mode = "human"

\* _render_frame makes a window: there is none and the mode is "human"
NeedsWindow(win) == win = None /\ render_mode = "human"

\* One pass of _render_frame over the given resource, trace and body state:
\* the fields it leaves behind, how it ends and what it draws.  A blit to a
\* window surface whose display has been quit raises pygame.error.
_render_frame(win, clk, disp, obsv, al, av, tl, tv, hl, hv) ==
    LET human   == render_mode = "human"
        created == NeedsWindow(win)
        win1    == IF created THEN Some("surface") ELSE win
        disp1   == IF created THEN "open" ELSE disp
        clk1    == IF clk = None /\ human THEN Some("Clock") ELSE clk
        obsv1   == IF show_observation_traces
                   THEN TraceAppend(obsv, _get_obs(al, av, tl, tv, hl, hv))
                   ELSE obsv
        lines   == IF show_observation_traces /\ Len(obsv1[1]) >= 2
                   THEN Len(obsv1[1]) ELSE 0
        canvas  == [target |-> tl, hazard |-> hl, agent |-> al, lines |-> lines]
        alive   == disp1 = "open"
    IN  [window |-> win1, clock |-> clk1, display |-> disp1, observations |-> obsv1,
         outcome |-> IF human /\ ~alive THEN "pygame.error" ELSE "return",
         array |-> IF human THEN None ELSE Some(canvas),
         render |-> [passes |-> 1, frame |-> Some(canvas),
                     blitted |-> human /\ alive, created |-> created]]

\* AutoRender for every environment that renders at all
AutoRenderAny(mode) == mode # "None"

\* reset and step render a frame themselves in this render mode
AutoRender(mode) == mode = "human"

\* ------------------------------------------------------------------------
\* reset
\* ------------------------------------------------------------------------

\* OptionsGet reading the agent's key for every body
OptionsGetAgent(options, key, default) ==
    IF options.is_none \/ options.agent_location = None
    THEN default ELSE options.agent_location

\* options.get(key, default), options possibly None
OptionsGet(options, key, default) ==
    IF options.is_none \/ options[key] = None THEN default ELSE options[key]

\* ResetGenerator seeding only an environment that has no generator yet
ResetGeneratorKeep(rng, seed, entropy) ==
    IF rng # None THEN rng[1]
    ELSE IF seed # None THEN Seeded(seed[1])
    ELSE entropy

\* the generator reset draws from after super().reset(seed=seed): a given seed
\* makes a new generator, no seed keeps the present one, and the first use of
\* an unseeded environment makes one from operating-system entropy
ResetGenerator(rng, seed, entropy) ==
    IF seed # None THEN Seeded(seed[1])
    ELSE IF rng = None THEN entropy
    ELSE rng[1]

\* ResetLocations that draws a location only for a body options leaves out
ResetLocationsLazy(s0, options) ==
    LET lo == -max_absolute_location
        hi == max_absolute_location
        given(key) == ~options.is_none /\ options[key] # None
        d1 == IF given("agent_location") THEN [value |-> zeros, rng |-> s0]
              ELSE uniform(s0, lo, hi)
        d2 == IF given("target_location") THEN [value |-> zeros, rng |-> d1.rng]
              ELSE uniform(d1.rng, lo, hi)
        d3 == IF given("hazard_location") THEN [value |-> zeros, rng |-> d2.rng]
              ELSE uniform(d2.rng, lo, hi)
    IN  [agent  |-> OptionsGet(options, "agent_location", d1.value),
         target |-> OptionsGet(options, "target_location", d2.value),
         hazard |-> OptionsGet(options, "hazard_location", d3.value),
         rng    |-> d3.rng]

\* the locations reset assigns and the generator it leaves
ResetLocations(s0, options) ==
    LET lo == -max_absolute_location
        hi == max_absolute_location
        d1 == uniform(s0, lo, hi)
        d2 == uniform(d1.rng, lo, hi)
        d3 == uniform(d2.rng, lo, hi)
    IN  [agent  |-> OptionsGet(options, "agent_location", d1.value),
         target |-> OptionsGet(options, "target_location", d2.value),
         hazard |-> OptionsGet(options, "hazard_location", d3.value),
         rng    |-> d3.rng]

Seeds == {None} \cup {Some(k) : k \in 0..MaxSeed}

\* options with the given keys; None leaves a key out
Options(a, t, h) ==
    [is_none |-> FALSE, agent_location |-> a, target_location |-> t,
     hazard_location |-> h]

\* explicit locations: the agent at the origin, the target just inside the
\* precision radius and exactly on it, the hazard outside the location box
NearTarget == <<0, location_precision - 1>>

EdgeTarget == <<0, location_precision>>

OutsideHazard == <<max_absolute_location + Excess * Scale, 0>>

OptionChoices ==
    {NoOptions,
     Options(zeros, None, None),
     Options(None, NearTarget, None),
     Options(None, None, OutsideHazard),
     Options(zeros, NearTarget, None),
     Options(zeros, EdgeTarget, None),
     Options(zeros, NearTarget, OutsideHazard)}

\* ResetVelocity that keeps the velocity a body already has
ResetVelocityKept(velocity) == IF velocity = None THEN zeros ELSE velocity

\* the velocity reset assigns to a body, whatever its velocity was: np.zeros
ResetVelocity(velocity) == zeros

Reset(seed, options, entropy) ==
    /\ constructed = "yes"
    /\ entropy = 0 \/ (seed = None /\ np_random = None)
    /\ \E loc \in {ResetLocations(ResetGenerator(np_random, seed, entropy), options)} :
       \E av \in {ResetVelocity(_agent_velocity)} :
       \E tv \in {ResetVelocity(_target_velocity)} :
       \E hv \in {ResetVelocity(_hazard_velocity)} :
       \E obsv \in {IF show_observation_traces THEN Some(<<>>) ELSE observations} :
       \E r \in {_render_frame(window, clock, display, obsv,
                               loc.agent, av, loc.target, tv, loc.hazard, hv)} :
       LET human == AutoRender(render_mode)
       IN  /\ np_random' = Some(loc.rng)
           /\ _agent_velocity' = av
           /\ _agent_location' = loc.agent
           /\ _target_velocity' = tv
           /\ _target_location' = loc.target
           /\ _hazard_velocity' = hv
           /\ _hazard_location' = loc.hazard
           /\ observations' = IF human THEN r.observations ELSE obsv
           /\ window' = IF human THEN r.window ELSE window
           /\ clock' = IF human THEN r.clock ELSE clock
           /\ display' = IF human THEN r.display ELSE display
           /\ last' =
                IF human /\ r.outcome # "return"
                THEN Result("reset", r.outcome, None, None, None, None, None, r.render)
                ELSE Result("reset", "return",
                            _get_obs(loc.agent, av, loc.target, tv, loc.hazard, hv),
                            None, None, None,
                            Some(_get_info(loc.agent, loc.target, loc.hazard)),
                            IF human THEN r.render ELSE NoRender)
           /\ episode' = [seed |-> seed, options |-> options, actions |-> <<>>]
    /\ UNCHANGED config

\* ------------------------------------------------------------------------
\* step
\* ------------------------------------------------------------------------

\* accelerations: beyond the limit on both axes, within it, and at the limit
OverAcceleration ==
    <<-(max_absolute_acceleration + Excess * Scale),
      max_absolute_acceleration + Excess * Scale>>

InnerAcceleration == <<0, render_fps * Scale>>

FullAcceleration == <<max_absolute_acceleration, -Scale>>

Actions ==
    {<<zeros, zeros, zeros>>,
     <<OverAcceleration, zeros, zeros>>,
     <<zeros, InnerAcceleration, zeros>>,
     <<zeros, zeros, FullAcceleration>>}

\* StepReturn paying a unit penalty per step instead of -dt
StepReturnUnitPenalty(obs, dt, terminated, info) ==
    [obs |-> obs, reward |-> -Scale, terminated |-> terminated, truncated |-> FALSE,
     info |-> info]

\* StepReturn handing terminated back in the truncated slot as well
StepReturnTwice(obs, dt, terminated, info) ==
    [obs |-> obs, reward |-> -dt, terminated |-> terminated, truncated |-> terminated,
     info |-> info]

\* the tuple step returns: the reward is -dt and truncated is False whatever
\* the step did
\* StepReturn with the reward doubled while the hazard is within the
\* precision radius of the agent
StepReturnHazardPenalty(obs, dt, terminated, info) ==
    [obs |-> obs,
     reward |-> IF NormLess(info.hazard_distance, location_precision)
                THEN -(2 * dt) ELSE -dt,
     terminated |-> terminated, truncated |-> FALSE, info |-> info]

StepReturn(obs, dt, terminated, info) ==
    [obs |-> obs, reward |-> -dt, terminated |-> terminated, truncated |-> FALSE,
     info |-> info]

\* the body of step: integrate the three bodies, render in human mode, return
StepBody(action) ==
    /\ constructed = "yes"
    /\ Len(episode.actions) < MaxSteps
    /\ IF _agent_location = None
       THEN \* no reset yet: self._agent_location does not exist
            /\ last' = NoResult("step", "AttributeError")
            /\ UNCHANGED <<bodies, observations, resource, episode>>
       ELSE \E dt \in {StepDt} :
            \E a \in {_step(_agent_location, _agent_velocity, action[1], dt)} :
            \E t \in {_step(_target_location, _target_velocity, action[2], dt)} :
            \E h \in {_step(_hazard_location, _hazard_velocity, action[3], dt)} :
            \E r \in {_render_frame(window, clock, display, observations,
                                    a.location, a.velocity, t.location, t.velocity,
                                    h.location, h.velocity)} :
            LET terminated == NormLess(norm(VecSub(a.location, t.location)),
                                       location_precision)
                ret == StepReturn(_get_obs(a.location, a.velocity, t.location,
                                           t.velocity, h.location, h.velocity),
                                  dt, terminated,
                                  _get_info(a.location, t.location, h.location))
                human == AutoRender(render_mode)
            IN  /\ _agent_location' = a.location
                /\ _agent_velocity' = a.velocity
                /\ _target_location' = t.location
                /\ _target_velocity' = t.velocity
                /\ _hazard_location' = h.location
                /\ _hazard_velocity' = h.velocity
                /\ observations' = IF human THEN r.observations ELSE observations
                /\ window' = IF human THEN r.window ELSE window
                /\ clock' = IF human THEN r.clock ELSE clock
                /\ display' = IF human THEN r.display ELSE display
                /\ last' =
                     IF human /\ r.outcome # "return"
                     THEN Result("step", r.outcome, None, None, None, None, None, r.render)
                     ELSE Result("step", "return", ret.obs, Some(ret.reward),
                                 Some(ret.terminated), Some(ret.truncated),
                                 Some(ret.info), IF human THEN r.render ELSE NoRender)
                /\ episode' = [episode EXCEPT !.actions = Append(@, action)]
    /\ UNCHANGED <<config, np_random>>

\* step that, once a step has returned terminated, integrates nothing more
\* and returns what that step returned
StepLatched(action) ==
    IF last.op = "step" /\ last.terminated = Some(TRUE)
    THEN /\ constructed = "yes"
         /\ Len(episode.actions) < MaxSteps
         /\ episode' = [episode EXCEPT !.actions = Append(@, action)]
         /\ UNCHANGED <<config, resource, np_random, bodies, observations, last>>
    ELSE StepBody(action)

\* step(action): the same code on every call, whatever the calls before it
\* returned
Step(action) == StepBody(action)

\* ------------------------------------------------------------------------
\* render
\* ------------------------------------------------------------------------

Render ==
    /\ constructed = "yes"
    /\ IF render_mode # "rgb_array"
       THEN /\ last' = NoResult("render", "return")
            /\ UNCHANGED <<observations, resource>>
       ELSE IF _agent_location = None
       THEN \* no reset yet: neither self.observations nor the locations exist
            /\ last' = NoResult("render", "AttributeError")
            /\ UNCHANGED <<observations, resource>>
       ELSE /\ show_observation_traces => Len(observations[1]) < MaxTrace
            /\ \E r \in {_render_frame(window, clock, display, observations,
                                        _agent_location, _agent_velocity,
                                        _target_location, _target_velocity,
                                        _hazard_location, _hazard_velocity)} :
                   /\ observations' = r.observations
                   /\ window' = r.window
                   /\ clock' = r.clock
                   /\ display' = r.display
                   /\ last' = [NoResult("render", r.outcome) EXCEPT
                                 !.passes = r.render.passes,
                                 !.frame = r.render.frame,
                                 !.blitted = r.render.blitted,
                                 !.created = r.render.created,
                                 !.array = r.array]
    /\ UNCHANGED <<config, np_random, bodies, episode>>

\* ------------------------------------------------------------------------
\* close
\* ------------------------------------------------------------------------

\* pygame.display.quit() followed by pygame.quit()
Quit(disp) == "quit"

\* close without the test for a window
CloseAlways ==
    /\ constructed = "yes"
    /\ display' = Quit(display)
    /\ last' = [NoResult("close", "return") EXCEPT !.released = display = "open"]
    /\ UNCHANGED <<config, window, clock, np_random, bodies, observations, episode>>

Close ==
    /\ constructed = "yes"
    /\ display' = IF window # None THEN Quit(display) ELSE display
    /\ last' = [NoResult("close", "return") EXCEPT
                  !.released = window # None /\ display = "open"]
    /\ UNCHANGED <<config, window, clock, np_random, bodies, observations, episode>>

\* ------------------------------------------------------------------------
\* Specification
\* ------------------------------------------------------------------------

Next ==
    \/ \E mode \in RenderModeArgs, traces \in BOOLEAN : Construct(mode, traces)
    \/ \E seed \in Seeds, options \in OptionChoices, entropy \in 0..(RngStates - 1) :
          Reset(seed, options, entropy)
    \/ \E action \in Actions : Step(action)
    \/ Render
    \/ Close

Spec == Init /\ [][Next]_vars

\* ------------------------------------------------------------------------
\* Properties
\* ------------------------------------------------------------------------

\* every component of v has absolute value <= m
InBox(v, m) == \A i \in 1..2 : -m <= v[i] /\ v[i] <= m

AllInBox ==
    /\ InBox(_agent_location, max_absolute_location)
    /\ InBox(_target_location, max_absolute_location)
    /\ InBox(_hazard_location, max_absolute_location)
    /\ InBox(_agent_velocity, max_absolute_velocity)
    /\ InBox(_target_velocity, max_absolute_velocity)
    /\ InBox(_hazard_velocity, max_absolute_velocity)

\* the bodies exist: reset has been called
HasReset == _agent_location # None

\* the options give no explicit location
NoOverrides(options) ==
    \/ options.is_none
    \/ /\ options.agent_location = None
       /\ options.target_location = None
       /\ options.hazard_location = None

\* the squared distance of two locations
DistanceSquared(p, q) ==
    (p[1] - q[1]) * (p[1] - q[1]) + (p[2] - q[2]) * (p[2] - q[2])

\* the last call was this operation and it returned
Returned(op) == last.op = op /\ last.outcome = "return"

\* C1: after a reset that draws every location at random, and after any
\* steps that follow it with any accelerations, every location component is
\* within +-max_absolute_location and every velocity component within
\* +-max_absolute_velocity.
C1_RandomEpisodeInBox ==
    (HasReset /\ NoOverrides(episode.options)) => AllInBox

\* a step from a random reset that pushed the agent beyond its acceleration
\* limit: the velocity is saturated on both axes and the location is held at
\* the edge of the box
C1_Witness ==
    /\ Returned("step")
    /\ NoOverrides(episode.options)
    /\ episode.actions[Len(episode.actions)][1] = OverAcceleration
    /\ _agent_velocity = <<-max_absolute_velocity, max_absolute_velocity>>
    /\ _agent_location[1] = -max_absolute_location

\* C2: the location and velocity box holds for every body at all times,
\* also in the state a reset with explicit locations produces.
C2_AlwaysInBox == HasReset => AllInBox

\* C3: a step returns terminated = True exactly when the agent and the
\* target are, after the step, at a distance strictly below
\* location_precision.
C3_TerminatedIffWithinPrecision ==
    Returned("step") =>
        (last.terminated = Some(TRUE)
            <=> DistanceSquared(_agent_location, _target_location)
                    < location_precision * location_precision)

\* a step that ends at distance exactly location_precision and is not
\* terminated
C3_Witness ==
    /\ Returned("step")
    /\ DistanceSquared(_agent_location, _target_location)
           = location_precision * location_precision
    /\ last.terminated = Some(FALSE)

\* C4: every step returns reward = -dt = -1/render_fps, terminated or not.
C4_RewardIsMinusDt ==
    Returned("step") => /\ last.reward # None
                        /\ last.reward[1] * render_fps = -Scale

\* a terminated step of a human-mode environment under a non-zero action,
\* rewarded -1/24
C4_Witness ==
    /\ Returned("step")
    /\ render_mode = "human"
    /\ last.terminated = Some(TRUE)
    /\ episode.actions[Len(episode.actions)] # <<zeros, zeros, zeros>>
    /\ last.reward = Some(-StepDt)

\* C5: every step returns truncated = False.
C5_NeverTruncated == Returned("step") => last.truncated = Some(FALSE)

\* the last step the model takes in an episode, terminated, not truncated
C5_Witness ==
    /\ Returned("step")
    /\ Len(episode.actions) = MaxSteps
    /\ last.terminated = Some(TRUE)
    /\ last.truncated = Some(FALSE)

\* --- a second run, on a new environment ----------------------------------

\* what reset(seed, options) leaves and returns on a new environment
FreshReset(seed, options) ==
    LET loc == ResetLocations(ResetGenerator(None, seed, 0), options)
    IN  [al |-> loc.agent, av |-> zeros, tl |-> loc.target, tv |-> zeros,
         hl |-> loc.hazard, hv |-> zeros,
         obs |-> _get_obs(loc.agent, zeros, loc.target, zeros, loc.hazard, zeros),
         reward |-> None, terminated |-> None]

\* what step(action) leaves and returns from the body state b
FreshStep(b, action) ==
    LET a == _step(b.al, b.av, action[1], StepDt)
        t == _step(b.tl, b.tv, action[2], StepDt)
        h == _step(b.hl, b.hv, action[3], StepDt)
        ret == StepReturn(_get_obs(a.location, a.velocity, t.location, t.velocity,
                                   h.location, h.velocity),
                          StepDt,
                          NormLess(norm(VecSub(a.location, t.location)),
                                   location_precision),
                          _get_info(a.location, t.location, h.location))
    IN  [al |-> a.location, av |-> a.velocity, tl |-> t.location, tv |-> t.velocity,
         hl |-> h.location, hv |-> h.velocity,
         obs |-> ret.obs, reward |-> Some(ret.reward),
         terminated |-> Some(ret.terminated)]

RECURSIVE FreshRun(_, _)
\* the run of a new environment over the actions, from the body state b
FreshRun(b, actions) ==
    IF actions = <<>> THEN b
    ELSE FreshRun(FreshStep(b, Head(actions)), Tail(actions))

\* C6: a run that calls reset(seed=S, options) and then applies a sequence
\* of actions returns, at every call, the observation, reward and terminated
\* flag that the same calls return on a new environment, whatever was done to
\* the environment before the reset; so any two such runs return the same.
C6_SeededRunIsDeterministic ==
    (episode.seed # None /\ (Returned("reset") \/ Returned("step"))) =>
        LET twin == FreshRun(FreshReset(episode.seed, episode.options),
                             episode.actions)
        IN  /\ last.obs = twin.obs
            /\ last.reward = twin.reward
            /\ last.terminated = twin.terminated

\* a seeded reset of a human-mode environment whose window an earlier episode
\* had already opened
C6_Witness ==
    /\ Returned("reset")
    /\ episode.seed = Some(0)
    /\ last.passes = 1 /\ ~last.created

\* the location of each body in an observation, and its key in options
BodyKeys ==
    {[key |-> "agent_location", at |-> 1], [key |-> "target_location", at |-> 3],
     [key |-> "hazard_location", at |-> 5]}

\* C7: reset returns, for each body on its own, the location that options
\* gives for that body if it gives one, and otherwise (key absent, or options
\* None) a location inside the location box, whatever the seed and whatever
\* options gives for the other bodies.
C7_OverridePerBody ==
    Returned("reset") =>
        \A b \in BodyKeys :
            IF ~episode.options.is_none /\ episode.options[b.key] # None
            THEN last.obs[b.at] = episode.options[b.key]
            ELSE InBox(last.obs[b.at], max_absolute_location)

\* a reset that overrides the target alone: the target is where options puts
\* it, agent and hazard are drawn
C7_Witness ==
    /\ Returned("reset")
    /\ episode.options = Options(None, NearTarget, None)
    /\ last.obs[3] = NearTarget
    /\ last.obs[1] # NearTarget /\ last.obs[5] # NearTarget

\* C8: __init__ with a render_mode other than None, "human", "rgb_array"
\* raises and leaves no environment to call; with one of the three it
\* succeeds, with window and clock None.
C8_ConstructionValidatesRenderMode ==
    /\ last.op = "__init__" =>
          IF last.arg[1] \in {"None", "human", "rgb_array"}
          THEN /\ constructed = "yes" /\ last.outcome = "return"
               /\ render_mode = last.arg[1]
               /\ window = None /\ clock = None
          ELSE /\ constructed = "failed" /\ last.outcome = "AssertionError"
    /\ constructed = "failed" => last.op = "__init__" /\ ~HasReset
    /\ constructed = "yes" => render_mode \in {"None", "human", "rgb_array"}

\* a construction with render_mode "ansi" that raised
C8_Witness ==
    /\ constructed = "failed"
    /\ last.arg = Some("ansi")
    /\ last.outcome = "AssertionError"

\* C9: a close that follows a close, and a close of an environment that has
\* no window, change nothing of the environment or of pygame and release
\* nothing.
C9_CloseIdempotent ==
    [][(last'.op = "close" /\ (last.op = "close" \/ window = None))
          => (UNCHANGED program /\ ~last'.released)]_vars

\* the state after the second close of an environment whose window was open
C9_Witness ==
    /\ last.op = "close"
    /\ window # None
    /\ display = "quit"
    /\ ~last.released

\* the frame a render pass draws for the present body state
DrawsPresentState(frame) ==
    /\ frame # None
    /\ frame[1].agent = _agent_location
    /\ frame[1].target = _target_location
    /\ frame[1].hazard = _hazard_location

\* C10 (reset and step): a reset or step runs exactly one render pass, of the
\* state it has just produced, if render_mode is "human", and none otherwise;
\* an explicit render() without a render mode draws nothing.
C10_PassPerCall ==
    /\ (last.op \in {"reset", "step"} /\ last.outcome # "AttributeError") =>
          IF render_mode = "human"
          THEN last.passes = 1 /\ DrawsPresentState(last.frame)
          ELSE last.passes = 0 /\ last.frame = None
    /\ (last.op = "render" /\ render_mode = "None") =>
          last.passes = 0 /\ last.frame = None /\ last.array = None

\* C10: the render pass of reset and step happens exactly in human mode, once
\* per call and after the state update; without a render mode render() draws
\* nothing and changes no state.
C10_AutoRenderOnlyHuman ==
    /\ []C10_PassPerCall
    /\ [][(last'.op = "render" /\ render_mode = "None") => UNCHANGED program]_vars

\* a human-mode step that moved the agent and drew it where it now is
C10_Witness ==
    /\ Returned("step")
    /\ render_mode = "human"
    /\ last.passes = 1 /\ last.blitted
    /\ _agent_location # zeros
    /\ DrawsPresentState(last.frame)
    /\ episode.actions[Len(episode.actions)][1] = OverAcceleration

\* C11 (states): without the human mode there is never a window or a clock
\* and pygame's display is never initialised; in human mode window and clock
\* are absent exactly until the first render pass, which the first reset runs.
C11_LazyStates ==
    /\ render_mode # "human" =>
          window = None /\ clock = None /\ display = "uninit"
    /\ render_mode = "human" =>
          /\ (window # None) <=> HasReset
          /\ (clock # None) <=> HasReset
          /\ (display # "uninit") <=> HasReset

\* C11 (steps): a call makes the window and the clock only when there was
\* none, in a render pass; once they exist every call keeps the same window
\* and clock and makes no other; only close shuts an open display down.
C11_LazySteps ==
    /\ last'.created =>
          /\ window = None /\ clock = None
          /\ window' # None /\ clock' # None /\ display' = "open"
          /\ last'.passes = 1
    /\ window # None =>
          /\ window' = window /\ clock' = clock
          /\ ~last'.created
    /\ (display = "open" /\ display' # "open") => last'.op = "close"

\* C11: window and clock are made lazily by the first human-mode render
\* pass, never in another mode, only once, and are reused by every later
\* pass; nothing but close tears them down.
C11_WindowCreatedLazilyOnce == []C11_LazyStates /\ [][C11_LazySteps]_vars

\* a later human-mode step that drew into the window an earlier call made
C11_Witness ==
    /\ Returned("step")
    /\ Len(episode.actions) = MaxSteps
    /\ last.passes = 1 /\ last.blitted /\ ~last.created
    /\ window # None /\ clock # None /\ display = "open"

\* the body state an observation records
BodyOf(obs) ==
    [al |-> obs[1], av |-> obs[2], tl |-> obs[3], tv |-> obs[4],
     hl |-> obs[5], hv |-> obs[6]]

\* the observation of the state a call leaves
ObsAfter ==
    _get_obs(_agent_location', _agent_velocity', _target_location',
             _target_velocity', _hazard_location', _hazard_velocity')

\* C12 (states): with traces disabled there is never a trace; in human mode
\* with traces enabled, after a reset and k steps the trace has k + 1
\* entries: the observation of the reset, then the observation of each step
\* in order, the last one being the present observation.
C12_TraceStates ==
    /\ ~show_observation_traces => observations = None
    /\ (show_observation_traces /\ HasReset) => observations # None
    /\ (show_observation_traces /\ render_mode = "human" /\ HasReset) =>
          LET trace == observations[1]
              k == Len(episode.actions)
          IN  /\ Len(trace) = k + 1
              /\ trace[1][2] = zeros /\ trace[1][4] = zeros /\ trace[1][6] = zeros
              /\ episode.seed # None =>
                    trace[1] = FreshReset(episode.seed, episode.options).obs
              /\ \A i \in 1..k :
                    trace[i + 1] = FreshStep(BodyOf(trace[i]), episode.actions[i]).obs
              /\ trace[k + 1] = _get_obs(_agent_location, _agent_velocity,
                                         _target_location, _target_velocity,
                                         _hazard_location, _hazard_velocity)

\* C12 (steps): with traces enabled a reset leaves the trace empty, or
\* holding only its own observation when it runs a render pass; every other
\* render pass adds the observation of the state it draws at the end; a call
\* without a render pass leaves the trace as it was.
C12_TraceSteps ==
    IF ~show_observation_traces THEN observations' = None
    ELSE IF last'.op = "reset"
    THEN observations' = IF last'.passes = 1 THEN Some(<<ObsAfter>>) ELSE Some(<<>>)
    ELSE IF last'.passes = 1
    THEN /\ observations' = Some(Append(observations[1], ObsAfter))
         /\ last'.frame[1].lines =
               IF Len(observations'[1]) >= 2 THEN Len(observations'[1]) ELSE 0
    ELSE observations' = observations

\* C12: the trace is the ordered, append-only record of the observations
\* drawn in the present episode; without show_observation_traces there is
\* none.
C12_TraceAppendOnly == []C12_TraceStates /\ [][C12_TraceSteps]_vars

\* a human-mode episode with traces, after a reset and MaxSteps steps that
\* each changed the observation
C12_Witness ==
    /\ show_observation_traces /\ render_mode = "human" /\ Returned("step")
    /\ Len(episode.actions) = MaxSteps
    /\ Len(observations[1]) = MaxSteps + 1
    /\ \A i \in 1..MaxSteps : observations[1][i] # observations[1][i + 1]
    /\ last.frame[1].lines = MaxSteps + 1

\* x limited to [-bound, bound]
Clamp(x, bound) == IF x > bound THEN bound ELSE IF x < -bound THEN -bound ELSE x

\* one axis of one body over one step, as <<new position, new velocity>>:
\* the acceleration is limited first, then the velocity it gives, then the
\* position the new velocity gives
AxisStep(p, v, action) ==
    LET a  == Clamp(action, max_absolute_acceleration)
        v1 == Clamp(v + (a * StepDt) \div Scale, max_absolute_velocity)
        p1 == Clamp(p + (v1 * StepDt) \div Scale, max_absolute_location)
    IN  <<p1, v1>>

\* the three bodies as <<location, velocity>> pairs, in the order of an action
BodyPairs ==
    << <<_agent_location, _agent_velocity>>,
       <<_target_location, _target_velocity>>,
       <<_hazard_location, _hazard_velocity>> >>

\* a step call on an environment that has been reset
StepCalled ==
    /\ HasReset
    /\ last'.op = "step"
    /\ Len(episode'.actions) = Len(episode.actions) + 1

\* the action of the step call
StepAction == episode'.actions[Len(episode'.actions)]

\* C13 (steps): step is never refused for its action; it leaves each axis of
\* each body at the position and velocity of AxisStep, and that is the state
\* _step gives for the action limited to the acceleration box.
C13_StepSteps ==
    StepCalled =>
        /\ last'.outcome # "AttributeError"
        /\ (render_mode # "human" \/ display = "open") => last'.outcome = "return"
        /\ \A b \in 1..3 :
              /\ \A i \in 1..2 :
                    <<BodyPairs'[b][1][i], BodyPairs'[b][2][i]>> =
                        AxisStep(BodyPairs[b][1][i], BodyPairs[b][2][i],
                                 StepAction[b][i])
              /\ LET limited == <<Clamp(StepAction[b][1], max_absolute_acceleration),
                                  Clamp(StepAction[b][2], max_absolute_acceleration)>>
                     same == _step(BodyPairs[b][1], BodyPairs[b][2], limited, StepDt)
                 IN  BodyPairs'[b] = <<same.location, same.velocity>>

\* C13: every step limits the acceleration, then the new velocity, then the
\* new position computed from the new velocity; an action outside the
\* acceleration box is accepted and acts as the same action limited to it.
C13_ClipOrder == [][C13_StepSteps]_vars

\* a step from rest at the origin under an acceleration outside the box: the
\* velocity is at its bound and the position has moved by that velocity
C13_Witness ==
    /\ Returned("step")
    /\ Len(episode.actions) = 1
    /\ episode.actions[1][1] = OverAcceleration
    /\ _agent_velocity = <<-max_absolute_velocity, max_absolute_velocity>>
    /\ _agent_location = <<-StepDt, StepDt>>

\* C14: a reset leaves the agent, the target and the hazard at rest, and the
\* observation it returns records a zero velocity for each of the three,
\* whatever the episode before it, the seed and the options.
C14_ResetZeroesVelocities ==
    /\ last.op = "reset" =>
          /\ _agent_velocity = zeros
          /\ _target_velocity = zeros
          /\ _hazard_velocity = zeros
    /\ Returned("reset") =>
          \A body \in {2, 4, 6} : last.obs[body] = <<0, 0>>

\* an unseeded reset without options, returned by a human-mode environment
\* whose window an earlier reset had opened
C14_Witness ==
    /\ Returned("reset")
    /\ render_mode = "human" /\ last.passes = 1 /\ ~last.created
    /\ episode.seed = None /\ NoOverrides(episode.options)
    /\ last.obs[2] = zeros /\ last.obs[4] = zeros /\ last.obs[6] = zeros

\* the body state b with the hazard put on top of the agent
HazardShadows(b) ==
    [b EXCEPT !.hl = b.al, !.hv = b.av,
              !.obs = _get_obs(b.al, b.av, b.tl, b.tv, b.al, b.av)]

\* the actions with the hazard given the acceleration of the agent
ShadowActions(actions) ==
    [i \in 1..Len(actions) |-> <<actions[i][1], actions[i][2], actions[i][1]>>]

\* C15: at every call of a seeded episode the reward, the terminated flag,
\* the positions and velocities of agent and target, and target_distance are
\* those of the run that starts from the same agent and target state and
\* applies the same agent and target accelerations while its hazard starts
\* on the agent and follows it; so any two runs that differ only in the
\* hazard's start and accelerations agree on them.
C15_HazardHasNoInfluence ==
    (episode.seed # None /\ (Returned("reset") \/ Returned("step"))) =>
        LET twin == FreshRun(HazardShadows(FreshReset(episode.seed, episode.options)),
                             ShadowActions(episode.actions))
        IN  /\ twin.hl = twin.al
            /\ \A k \in 1..4 : last.obs[k] = twin.obs[k]
            /\ last.reward = twin.reward
            /\ last.terminated = twin.terminated
            /\ last.info[1].target_distance = norm(VecSub(twin.al, twin.tl))

\* a seeded episode whose hazard starts outside the location box and has been
\* accelerated, away from the agent, while the step terminates the episode
C15_Witness ==
    /\ Returned("step")
    /\ episode.seed # None
    /\ ~episode.options.is_none
    /\ episode.options.hazard_location = OutsideHazard
    /\ episode.actions[Len(episode.actions)][3] = FullAcceleration
    /\ _hazard_velocity # zeros
    /\ _hazard_location # _agent_location
    /\ last.terminated = Some(TRUE)

\* C16: every human-mode render pass draws into a window that is open, and
\* once close has shut the display down the environment holds neither the
\* window nor the clock, so that the next human-mode pass makes a new window.
\* close leaves self.window and self.clock as they were: the state after
\* reset and close violates this, and the reset or step after it draws into
\* the window whose display is gone.
C16_WindowNeverUsedAfterRelease ==
    /\ (render_mode = "human" /\ last.passes = 1) =>
          /\ last.blitted
          /\ display = "open"
    /\ display = "quit" => (window = None /\ clock = None)

\* C17 (states): after a step that returned terminated, step can be called
\* again with any action.
C17_StepStillAccepted ==
    (Returned("step") /\ last.terminated = Some(TRUE)
        /\ Len(episode.actions) < MaxSteps) =>
        \A action \in Actions : ENABLED Step(action)

\* C17 (steps): the step after a step that returned terminated returns; it
\* integrates the three bodies like any step, and its terminated flag is the
\* comparison of the new agent-target distance with location_precision, so
\* it is false whenever that distance is not below location_precision.
C17_StepAfterTerminated ==
    (StepCalled /\ Returned("step") /\ last.terminated = Some(TRUE)) =>
        LET next == FreshStep(BodyOf(_get_obs(_agent_location, _agent_velocity,
                                              _target_location, _target_velocity,
                                              _hazard_location, _hazard_velocity)),
                              StepAction)
            near == DistanceSquared(_agent_location', _target_location')
                        < location_precision * location_precision
        IN  /\ last'.outcome = "return"
            /\ ObsAfter = next.obs
            /\ last'.obs = ObsAfter
            /\ last'.terminated = Some(near)
            /\ ~near => last'.terminated = Some(FALSE)

\* C17: termination is not latched and does not block stepping.
C17_TerminationNotLatched ==
    []C17_StepStillAccepted /\ [][C17_StepAfterTerminated]_vars

\* a seeded episode whose first step returned terminated and whose second
\* step, having moved the agent away, returned not terminated
C17_Witness ==
    /\ Returned("step")
    /\ episode.seed # None
    /\ Len(episode.actions) = 2
    /\ FreshRun(FreshReset(episode.seed, episode.options),
                <<episode.actions[1]>>).terminated = Some(TRUE)
    /\ last.terminated = Some(FALSE)
    /\ DistanceSquared(_agent_location, _target_location)
          >= location_precision * location_precision

\* the generator after n position draws from the state s
RECURSIVE AfterDraws(_, _)
AfterDraws(s, n) ==
    IF n = 0 THEN s
    ELSE AfterDraws(uniform(s, -max_absolute_location, max_absolute_location).rng,
                    n - 1)

\* the n-th position drawn from the generator state s
Draw(s, n) ==
    uniform(AfterDraws(s, n - 1), -max_absolute_location,
            max_absolute_location).value

\* C18: a seeded reset leaves the generator three position draws after the
\* seeded state, whatever options overrides, and a body that options does not
\* override is at the draw of its own rank (agent first, target second,
\* hazard third), which is where the reset with the same seed and no options
\* puts it.
C18_ThreeDrawsInFixedOrder ==
    (last.op = "reset" /\ episode.seed # None) =>
        /\ np_random = Some(AfterDraws(Seeded(episode.seed[1]), 3))
        /\ Returned("reset") =>
              \A b \in BodyKeys :
                  (episode.options.is_none \/ episode.options[b.key] = None) =>
                      /\ last.obs[b.at] =
                            Draw(Seeded(episode.seed[1]), (b.at + 1) \div 2)
                      /\ last.obs[b.at] =
                            FreshReset(episode.seed, NoOptions).obs[b.at]

\* a seeded reset that overrides the agent alone: the target is at the second
\* draw, which is not the first one
C18_Witness ==
    /\ Returned("reset")
    /\ episode.seed # None
    /\ ~episode.options.is_none
    /\ episode.options.agent_location # None
    /\ episode.options.target_location = None
    /\ last.obs[3] = Draw(Seeded(episode.seed[1]), 2)
    /\ last.obs[3] # Draw(Seeded(episode.seed[1]), 1)

\* C19: what one step returns describes the one state the step leaves: the
\* observation lists agent position, agent velocity, target position, target
\* velocity, hazard position, hazard velocity of that state in this order;
\* info holds the agent-target and the agent-hazard distance of that state;
\* terminated is true exactly when info's target_distance is below
\* location_precision.
C19_StepReturnsConsistent ==
    Returned("step") =>
        /\ Len(last.obs) = 6
        /\ last.obs[1] = _agent_location /\ last.obs[2] = _agent_velocity
        /\ last.obs[3] = _target_location /\ last.obs[4] = _target_velocity
        /\ last.obs[5] = _hazard_location /\ last.obs[6] = _hazard_velocity
        /\ last.info[1].target_distance.squared =
              DistanceSquared(last.obs[1], last.obs[3])
        /\ last.info[1].hazard_distance.squared =
              DistanceSquared(last.obs[1], last.obs[5])
        /\ last.terminated =
              Some(last.info[1].target_distance.squared
                      < location_precision * location_precision)

\* a step that returned terminated with the hazard moving and farther from
\* the agent than the target is
C19_Witness ==
    /\ Returned("step")
    /\ last.terminated = Some(TRUE)
    /\ last.obs[6] # zeros
    /\ last.obs[5] # last.obs[1]
    /\ last.info[1].target_distance.squared < last.info[1].hazard_distance.squared

====
